---------------------------- MODULE Spec2Model ----------------------------
(***************************************************************************)
(* Command encoders of the stm32wl sub-GHz radio driver: RfFreq, PaConfig, *)
(* TcxoMode and PacketType.                                                *)
(*                                                                         *)
(* Machine integers wider than a byte (u32, u64) are kept as big-endian    *)
(* sequences of hexadecimal digits, so 0x39300000 is <<3,9,3,0,0,0,0,0>>:  *)
(* TLC's own integers are 32-bit signed and cannot hold a u32.  A u32 has  *)
(* 8 digits, a u64 has 16.  Bytes (u8) are plain integers 0..255.  A       *)
(* command struct is its 5-byte buffer, a sequence of bytes.               *)
(***************************************************************************)
EXTENDS Integers, Sequences, FiniteSets

VARIABLES
    rf_arg,     \* the u32 handed to RfFreq::from_bits / RfFreq::from_frequency
    rf_how,     \* which constructor built rf_r: "none", "from_bits", "from_frequency"
    rf_r,       \* the RfFreq built from rf_arg (<<>>: not built yet)
    rf_hz,      \* rf_r.freq() (<<>>: not called yet)
    rf_r2,      \* RfFreq::from_frequency(rf_r.freq()) (<<>>: not called yet)
    pa,         \* the PaConfig under construction
    pa_duty,    \* <<v>>: argument of the latest set_pa_duty_cycle, <<>>: never called
    pa_hp,      \* <<v>>: argument of the latest set_hp_max, <<>>: never called
    pa_sel,     \* <<p>>: argument of the latest set_pa, <<>>: never called
    tcxo,       \* the TcxoMode under construction
    tcxo_trim,  \* <<t>>: argument of the latest set_txco_trim, <<>>: never called
    tcxo_bits,  \* <<b>>: timeout.as_bits() of the latest set_timeout, <<>>: never called
    pt_bits,    \* the byte handed to PacketType::from_bits
    pt_from,    \* <<v>>: pt_bits is `v as u8` of this variant, <<>>: a raw byte
    pt_res      \* the Result of PacketType::from_bits (both fields empty: not called)

rfVars   == <<rf_arg, rf_how, rf_r, rf_hz, rf_r2>>
paVars   == <<pa, pa_duty, pa_hp, pa_sel>>
tcxoVars == <<tcxo, tcxo_trim, tcxo_bits>>
ptVars   == <<pt_bits, pt_from, pt_res>>
vars     == <<rfVars, paVars, tcxoVars, ptVars>>

---------------------------------------------------------------------------
(* Bounds of the model.                                                    *)

\* Half-width, in units of 16, of the window of u32 inputs taken around
\* every anchor value of U32Anchors.
Window == 1

\* set_pa_duty_cycle and set_hp_max arguments of the builder sequences are
\* drawn from 0..MaxArg (single calls are checked over the whole u8 range).
MaxArg == 18

---------------------------------------------------------------------------
(* Integer arithmetic on digit sequences.                                  *)

\* The low n digits of x, zero-extended on the left: an `as` cast to an
\* unsigned type of 4n bits.
Fit(x, n) ==
    [i \in 1..n |-> LET j == Len(x) - n + i IN IF j >= 1 THEN x[j] ELSE 0]

RECURSIVE CarryDigits(_)
CarryDigits(c) ==
    IF c = 0 THEN <<>> ELSE Append(CarryDigits(c \div 16), c % 16)

\* x * k without loss, for a factor k < 2^27.
RECURSIVE NatMulCarry(_, _, _)
NatMulCarry(x, k, carry) ==
    IF x = <<>> THEN CarryDigits(carry)
    ELSE LET t == x[Len(x)] * k + carry
         IN  Append(NatMulCarry(SubSeq(x, 1, Len(x) - 1), k, t \div 16), t % 16)

NatMul(x, k) == NatMulCarry(x, k, 0)

\* x + k for k < 2^27, without loss.
RECURSIVE NatAddCarry(_, _)
NatAddCarry(x, carry) ==
    IF x = <<>> THEN CarryDigits(carry)
    ELSE LET t == x[Len(x)] + carry
         IN  Append(NatAddCarry(SubSeq(x, 1, Len(x) - 1), t \div 16), t % 16)

NatAdd(x, k) == NatAddCarry(x, k)

\* floor(x / k) by long division, for a divisor 0 < k < 2^27; as many
\* digits as x.
RECURSIVE NatDivRem(_, _, _)
NatDivRem(x, k, rem) ==
    IF x = <<>> THEN <<>>
    ELSE LET t == rem * 16 + Head(x)
         IN  <<t \div k>> \o NatDivRem(Tail(x), k, t % k)

NatDiv(x, k) == NatDivRem(x, k, 0)

RECURSIVE Pow2(_)
Pow2(n) == IF n = 0 THEN 1 ELSE 2 * Pow2(n - 1)

RECURSIVE BitAnd(_, _)
BitAnd(a, b) ==
    IF a = 0 \/ b = 0 THEN 0
    ELSE (a % 2) * (b % 2) + 2 * BitAnd(a \div 2, b \div 2)

RECURSIVE BitOr(_, _)
BitOr(a, b) ==
    IF a = 0 THEN b
    ELSE IF b = 0 THEN a
    ELSE (IF a % 2 = 1 \/ b % 2 = 1 THEN 1 ELSE 0) + 2 * BitOr(a \div 2, b \div 2)

\* u32 and u64 operators of the source.
U64Mul(x, k)  == Fit(NatMul(x, k), 16)
U64Div(x, k)  == NatDiv(x, k)
U32Shl(x, n)  == Fit(NatMul(x, Pow2(n)), 8)
U32Shr(x, n)  == NatDiv(x, Pow2(n))
U32And(x, y)  == [i \in 1..8 |-> BitAnd(x[i], y[i])]
U32Or(x, y)   == [i \in 1..8 |-> BitOr(x[i], y[i])]

\* Casts.
AsU64(x)      == Fit(x, 16)
AsU32(x)      == Fit(x, 8)
AsU8(x)       == x[Len(x) - 1] * 16 + x[Len(x)]
U8AsU32(b)    == <<0, 0, 0, 0, 0, 0, b \div 16, b % 16>>

\* The u8 and u32 literal 0xFF.
Lit0xFF       == <<0, 0, 0, 0, 0, 0, 15, 15>>

---------------------------------------------------------------------------
(* Operation codes (crate::OpCode), as the doc tests of as_slice give them. *)

OpCode_SetRfFrequency == 134    \* 0x86
OpCode_SetPaConfig    == 149    \* 0x95
OpCode_SetTcxoMode    == 151    \* 0x97

---------------------------------------------------------------------------
(* RfFreq (rf_frequency.rs).                                               *)

\* Faulty variant of from_bits: the four bytes in little-endian order.
RfFreq_from_bits_le(bits) ==
    << OpCode_SetRfFrequency,
       AsU8(U32And(bits, Lit0xFF)),
       AsU8(U32And(U32Shr(bits, 8), Lit0xFF)),
       AsU8(U32And(U32Shr(bits, 16), Lit0xFF)),
       AsU8(U32And(U32Shr(bits, 24), Lit0xFF)) >>

RfFreq_from_bits(bits) ==
    << OpCode_SetRfFrequency,
       AsU8(U32And(U32Shr(bits, 24), Lit0xFF)),
       AsU8(U32And(U32Shr(bits, 16), Lit0xFF)),
       AsU8(U32And(U32Shr(bits, 8), Lit0xFF)),
       AsU8(U32And(bits, Lit0xFF)) >>

\* Faulty variant of from_frequency: the product freq * 2^25 is taken in
\* 32 bits.
RfFreq_from_frequency_mul32(freq) ==
    RfFreq_from_bits(
        AsU32(U64Div(AsU64(AsU32(U64Mul(AsU64(freq), Pow2(25)))), 32000000)))

\* Faulty variant of from_frequency: the quotient is rounded to the nearest
\* register value instead of truncated.
RfFreq_from_frequency_round(freq) ==
    RfFreq_from_bits(
        AsU32(U64Div(Fit(NatAdd(U64Mul(AsU64(freq), Pow2(25)), 16000000), 16),
                     32000000)))

RfFreq_from_frequency(freq) ==
    RfFreq_from_bits(AsU32(U64Div(U64Mul(AsU64(freq), Pow2(25)), 32000000)))

\* Faulty variant of as_bits: byte 1 is shifted by 16 instead of 24.
RfFreq_as_bits_shift16(self) ==
    U32Or(U32Or(U32Or(U32Shl(U8AsU32(self[2]), 16),
                      U32Shl(U8AsU32(self[3]), 16)),
                U32Shl(U8AsU32(self[4]), 8)),
          U8AsU32(self[5]))

RfFreq_as_bits(self) ==
    U32Or(U32Or(U32Or(U32Shl(U8AsU32(self[2]), 24),
                      U32Shl(U8AsU32(self[3]), 16)),
                U32Shl(U8AsU32(self[4]), 8)),
          U8AsU32(self[5]))

\* Faulty variant of freq: the product 32_000_000 * bits is taken in 32
\* bits.
RfFreq_freq_mul32(self) ==
    AsU32(U64Div(AsU64(AsU32(U64Mul(AsU64(RfFreq_as_bits(self)), 32000000))),
                 Pow2(25)))

RfFreq_freq(self) ==
    AsU32(U64Div(U64Mul(AsU64(RfFreq_as_bits(self)), 32000000), Pow2(25)))

RfFreq_as_slice(self) == self

RfFreq_F915 == RfFreq_from_bits(<<3, 9, 3, 0, 0, 0, 0, 0>>)
RfFreq_F868 == RfFreq_from_bits(<<3, 6, 4, 0, 0, 0, 0, 0>>)
RfFreq_F433 == RfFreq_from_bits(<<1, 11, 1, 0, 0, 0, 0, 0>>)

\* The u32 inputs of the RfFreq constructors: every value whose upper 28
\* bits lie within Window of an anchor.  Anchors are upper-28-bit prefixes
\* (value \div 16).
U32Anchors ==
    { 0,            \* 0 Hz, bits 0
      8,            \* 128 Hz: freq * 2^25 reaches 2^32 here
      976,          \* 15_625 Hz, the smallest frequency with an exact encoding
      19088743,     \* 0x1234567_
      27062500,     \* 433 MHz
      28377088,     \* 0x1B10000_ (F433)
      54250000,     \* 868 MHz
      56885248,     \* 0x3640000_ (F868)
      57187500,     \* 915 MHz
      59965440,     \* 0x3930000_ (F915)
      134217728,    \* 2^31
      256000000,    \* 4_096_000_000 Hz: the encoding reaches 2^32 here
      268435455 }   \* 0xFFFFFFF_ (u32::MAX)

U32Prefixes ==
    { p \in UNION { (a - Window)..(a + Window) : a \in U32Anchors } :
        p >= 0 /\ p <= 268435455 }

ToDigits(n, len) == [i \in 1..len |-> (n \div Pow2(4 * (len - i))) % 16]

U32Inputs == { ToDigits(p, 7) \o <<low>> : p \in U32Prefixes, low \in 0..15 }

RfInit ==
    /\ rf_arg \in U32Inputs
    /\ rf_how = "none"
    /\ rf_r = <<>>
    /\ rf_hz = <<>>
    /\ rf_r2 = <<>>

\* let r = RfFreq::from_bits(arg);
RfFromBits ==
    /\ rf_how = "none"
    /\ rf_r' = RfFreq_from_bits(rf_arg)
    /\ rf_how' = "from_bits"
    /\ UNCHANGED <<rf_arg, rf_hz, rf_r2, paVars, tcxoVars, ptVars>>

\* let r = RfFreq::from_frequency(arg);
RfFromFrequency ==
    /\ rf_how = "none"
    /\ rf_r' = RfFreq_from_frequency(rf_arg)
    /\ rf_how' = "from_frequency"
    /\ UNCHANGED <<rf_arg, rf_hz, rf_r2, paVars, tcxoVars, ptVars>>

\* let hz = r.freq();
RfFreqCall ==
    /\ rf_how # "none"
    /\ rf_hz = <<>>
    /\ rf_hz' = RfFreq_freq(rf_r)
    /\ UNCHANGED <<rf_arg, rf_how, rf_r, rf_r2, paVars, tcxoVars, ptVars>>

\* let r2 = RfFreq::from_frequency(hz);
RfReencode ==
    /\ rf_hz # <<>>
    /\ rf_r2 = <<>>
    /\ rf_r2' = RfFreq_from_frequency(rf_hz)
    /\ UNCHANGED <<rf_arg, rf_how, rf_r, rf_hz, paVars, tcxoVars, ptVars>>

RfNext == RfFromBits \/ RfFromFrequency \/ RfFreqCall \/ RfReencode


RfIdle ==
    /\ rf_arg = <<0, 0, 0, 0, 0, 0, 0, 0>>
    /\ rf_how = "none"
    /\ rf_r = <<>>
    /\ rf_hz = <<>>
    /\ rf_r2 = <<>>

---------------------------------------------------------------------------
(* PaConfig and PaSel (pa_config.rs).                                      *)

PaSel == {"Hp", "Lp"}

PaSel_as_u8(p) == CASE p = "Hp" -> 0 [] p = "Lp" -> 1

\* Faulty variant of new: the PA selection byte is HP (0).
PaConfig_new_hp == <<OpCode_SetPaConfig, 1, 0, 0, 1>>

PaConfig_new == <<OpCode_SetPaConfig, 1, 0, 1, 1>>

\* Faulty variant of set_pa_duty_cycle: the argument is stored unmasked.
PaConfig_set_pa_duty_cycle_unmasked(self, pa_duty_cycle) ==
    [self EXCEPT ![2] = pa_duty_cycle]

PaConfig_set_pa_duty_cycle(self, pa_duty_cycle) ==
    [self EXCEPT ![2] = BitAnd(pa_duty_cycle, 7)]

\* Faulty variant of set_hp_max: it writes buf[1], the duty-cycle byte.
PaConfig_set_hp_max_byte1(self, hp_max) ==
    [self EXCEPT ![2] = BitAnd(hp_max, 7)]

PaConfig_set_hp_max(self, hp_max) ==
    [self EXCEPT ![3] = BitAnd(hp_max, 7)]

PaConfig_set_pa(self, p) ==
    [self EXCEPT ![4] = PaSel_as_u8(p)]

PaConfig_as_slice(self) == self

U8 == 0..255

\* const PA_CONFIG: PaConfig = PaConfig::new();
PaInit ==
    /\ pa = PaConfig_new
    /\ pa_duty = <<>>
    /\ pa_hp = <<>>
    /\ pa_sel = <<>>

\* pa = pa.set_pa_duty_cycle(v), v drawn from args
SetPaDutyCycle(args) ==
    \E v \in args :
        /\ pa' = PaConfig_set_pa_duty_cycle(pa, v)
        /\ pa_duty' = <<v>>
        /\ UNCHANGED <<pa_hp, pa_sel, rfVars, tcxoVars, ptVars>>

\* pa = pa.set_hp_max(v), v drawn from args
SetHpMax(args) ==
    \E v \in args :
        /\ pa' = PaConfig_set_hp_max(pa, v)
        /\ pa_hp' = <<v>>
        /\ UNCHANGED <<pa_duty, pa_sel, rfVars, tcxoVars, ptVars>>

\* pa = pa.set_pa(p)
SetPa ==
    \E p \in PaSel :
        /\ pa' = PaConfig_set_pa(pa, p)
        /\ pa_sel' = <<p>>
        /\ UNCHANGED <<pa_duty, pa_hp, rfVars, tcxoVars, ptVars>>

\* No setter has been applied to PaConfig::new() yet.
PaFresh == pa_duty = <<>> /\ pa_hp = <<>> /\ pa_sel = <<>>

---------------------------------------------------------------------------
(* TcxoMode and TcxoTrim (tcxo_mode.rs).                                   *)

TcxoTrim ==
    { "Volts1pt6", "Volts1pt7", "Volts1pt8", "Volts2pt2",
      "Volts2pt4", "Volts2pt7", "Volts3pt0", "Volts3pt3" }

TcxoTrim_as_u8(t) ==
    CASE t = "Volts1pt6" -> 0
      [] t = "Volts1pt7" -> 1
      [] t = "Volts1pt8" -> 2
      [] t = "Volts2pt2" -> 3
      [] t = "Volts2pt4" -> 4
      [] t = "Volts2pt7" -> 5
      [] t = "Volts3pt0" -> 6
      [] t = "Volts3pt3" -> 7

TcxoMode_new == <<OpCode_SetTcxoMode, 0, 0, 0, 0>>

TcxoMode_set_txco_trim(self, tcxo_trim_arg) ==
    [self EXCEPT ![2] = TcxoTrim_as_u8(tcxo_trim_arg)]

\* Faulty variant of set_timeout: bits 31..8 are written instead of 23..0.
TcxoMode_set_timeout_top(self, timeout_bits) ==
    [self EXCEPT ![3] = AsU8(U32And(U32Shr(timeout_bits, 24), Lit0xFF)),
                 ![4] = AsU8(U32And(U32Shr(timeout_bits, 16), Lit0xFF)),
                 ![5] = AsU8(U32And(U32Shr(timeout_bits, 8), Lit0xFF))]

\* timeout_bits is timeout.as_bits(), a u32.
TcxoMode_set_timeout(self, timeout_bits) ==
    [self EXCEPT ![3] = AsU8(U32And(U32Shr(timeout_bits, 16), Lit0xFF)),
                 ![4] = AsU8(U32And(U32Shr(timeout_bits, 8), Lit0xFF)),
                 ![5] = AsU8(U32And(timeout_bits, Lit0xFF))]

TcxoMode_as_slice(self) == self

\* The timeout bit values handed to set_timeout, chosen like U32Inputs.
TimeoutAnchors ==
    { 74565,        \* 0x0012345_ (0x123456 of the doc test)
      1048575,      \* 0x00FFFFF_: the 24-bit ceiling; the next prefix sets bit 24
      268435455 }   \* 0xFFFFFFF_ (u32::MAX)

TimeoutPrefixes ==
    { p \in UNION { (a - Window)..(a + Window) : a \in TimeoutAnchors } :
        p >= 0 /\ p <= 268435455 }

TimeoutInputs ==
    { ToDigits(p, 7) \o <<low>> : p \in TimeoutPrefixes, low \in 0..15 }

\* const TCXO_MODE: TcxoMode = TcxoMode::new();
TcxoInit ==
    /\ tcxo = TcxoMode_new
    /\ tcxo_trim = <<>>
    /\ tcxo_bits = <<>>

\* tcxo = tcxo.set_txco_trim(t)
SetTxcoTrim ==
    \E t \in TcxoTrim :
        /\ tcxo' = TcxoMode_set_txco_trim(tcxo, t)
        /\ tcxo_trim' = <<t>>
        /\ UNCHANGED <<tcxo_bits, rfVars, paVars, ptVars>>

\* tcxo = tcxo.set_timeout(&timeout), b = timeout.as_bits()
SetTimeout ==
    \E b \in TimeoutInputs :
        /\ tcxo' = TcxoMode_set_timeout(tcxo, b)
        /\ tcxo_bits' = <<b>>
        /\ UNCHANGED <<tcxo_trim, rfVars, paVars, ptVars>>

TcxoNext == SetTxcoTrim \/ SetTimeout

---------------------------------------------------------------------------
(* PacketType (packet_type.rs).  A Result<PacketType, u8> is a record      *)
(* [ok, err] of which one field holds the payload: Ok(v) is                *)
(* [ok |-> <<v>>, err |-> <<>>] and Err(b) is [ok |-> <<>>, err |-> <<b>>]. *)

PacketType == {"Fsk", "LoRa", "Bpsk", "Msk"}

PacketType_as_u8(v) ==
    CASE v = "Fsk" -> 0
      [] v = "LoRa" -> 1
      [] v = "Bpsk" -> 2
      [] v = "Msk" -> 3

Ok(v)  == [ok |-> <<v>>, err |-> <<>>]
Err(b) == [ok |-> <<>>, err |-> <<b>>]
NoResult == [ok |-> <<>>, err |-> <<>>]

\* Faulty variant of from_bits: Msk is missing and the error payload is a
\* fixed 0xFF.
PacketType_from_bits_lossy(bits) ==
    CASE bits = 0 -> Ok("Fsk")
      [] bits = 1 -> Ok("LoRa")
      [] bits = 2 -> Ok("Bpsk")
      [] OTHER -> Err(255)

PacketType_from_bits(bits) ==
    CASE bits = 0 -> Ok("Fsk")
      [] bits = 1 -> Ok("LoRa")
      [] bits = 2 -> Ok("Bpsk")
      [] bits = 3 -> Ok("Msk")
      [] OTHER -> Err(bits)

\* The caller holds either a raw byte or `v as u8` of a variant v.
PtInit ==
    /\ \/ pt_bits \in U8 /\ pt_from = <<>>
       \/ \E v \in PacketType : pt_bits = PacketType_as_u8(v) /\ pt_from = <<v>>
    /\ pt_res = NoResult

\* let res = PacketType::from_bits(bits);
PtFromBits ==
    /\ pt_res = NoResult
    /\ pt_res' = PacketType_from_bits(pt_bits)
    /\ UNCHANGED <<pt_bits, pt_from, rfVars, paVars, tcxoVars>>

PtNext == PtFromBits

PtIdle ==
    /\ pt_bits = 0
    /\ pt_from = <<>>
    /\ pt_res = NoResult

---------------------------------------------------------------------------
(* Specifications: one per command type; the other types stay idle.        *)

\* PaConfig::new() followed by any sequence of setter calls.
Init == PaInit /\ RfIdle /\ TcxoInit /\ PtIdle
Next == SetPaDutyCycle(0..MaxArg) \/ SetHpMax(0..MaxArg) \/ SetPa
Spec == Init /\ [][Next]_vars

\* PaConfig::new() followed by one setter call, over the whole u8 range.
PaCallNext ==
    \/ PaFresh /\ SetPaDutyCycle(U8)
    \/ PaFresh /\ SetHpMax(U8)
    \/ PaFresh /\ SetPa
SpecPaCall == Init /\ [][PaCallNext]_vars

\* One RfFreq built from a u32, decoded and re-encoded.
InitRfFreq == RfInit /\ PaInit /\ TcxoInit /\ PtIdle
SpecRfFreq == InitRfFreq /\ [][RfNext]_vars

\* TcxoMode::new() followed by any sequence of setter calls.
InitTcxoMode == TcxoInit /\ RfIdle /\ PaInit /\ PtIdle
SpecTcxoMode == InitTcxoMode /\ [][TcxoNext]_vars

\* One PacketType::from_bits call.
InitPacketType == PtInit /\ RfIdle /\ PaInit /\ TcxoInit
SpecPacketType == InitPacketType /\ [][PtNext]_vars

---------------------------------------------------------------------------
(* Comparison and arithmetic on digit sequences of any length, used to     *)
(* state the properties below.                                             *)

RECURSIVE LexLeq(_, _)
LexLeq(x, y) ==
    IF x = <<>> THEN TRUE
    ELSE IF Head(x) < Head(y) THEN TRUE
    ELSE IF Head(x) > Head(y) THEN FALSE
    ELSE LexLeq(Tail(x), Tail(y))

MaxLen(x, y) == IF Len(x) >= Len(y) THEN Len(x) ELSE Len(y)

NatLeq(x, y) == LexLeq(Fit(x, MaxLen(x, y)), Fit(y, MaxLen(x, y)))
NatLt(x, y)  == ~NatLeq(y, x)
NatEq(x, y)  == Fit(x, MaxLen(x, y)) = Fit(y, MaxLen(x, y))

\* x mod k, for 0 < k < 2^27.
RECURSIVE NatMod(_, _, _)
NatMod(x, k, rem) ==
    IF x = <<>> THEN rem ELSE NatMod(Tail(x), k, (rem * 16 + Head(x)) % k)

\* q = floor(n * a / b): q * b <= n * a < (q + 1) * b.
IsFloorOf(q, n, a, b) ==
    /\ NatLeq(NatMul(q, b), NatMul(n, a))
    /\ NatLt(NatMul(n, a), NatMul(NatAdd(q, 1), b))

\* The register value a buffer holds in bytes 1..4, read big-endian.
BufBits(buf) ==
    << buf[2] \div 16, buf[2] % 16, buf[3] \div 16, buf[3] % 16,
       buf[4] \div 16, buf[4] % 16, buf[5] \div 16, buf[5] % 16 >>

\* The byte that digits i and i + 1 of x spell.
ByteAt(x, i) == x[i] * 16 + x[i + 1]

Hz4095999999 == <<15, 4, 2, 3, 15, 15, 15, 15>>   \* 0xF423FFFF
Hz915M       == <<3, 6, 8, 9, 12, 10, 12, 0>>     \* 0x3689CAC0
Hz868M       == <<3, 3, 11, 12, 10, 1, 0, 0>>     \* 0x33BCA100
Hz433M       == <<1, 9, 12, 15, 0, 14, 4, 0>>     \* 0x19CF0E40
U32Max       == <<15, 15, 15, 15, 15, 15, 15, 15>>
U32Zero      == <<0, 0, 0, 0, 0, 0, 0, 0>>

---------------------------------------------------------------------------
(* Claims about RfFreq, under SpecRfFreq.                                  *)

\* C1 as stated: for every freq_hz of the u32 range, from_frequency(freq_hz)
\* holds bits = floor(freq_hz * 2^25 / 32_000_000), no bit of the quotient
\* lost.
C1_AsStated ==
    rf_how = "from_frequency" =>
        IsFloorOf(BufBits(rf_r), rf_arg, Pow2(25), 32000000)

\* C1 amended: from_frequency(freq_hz) holds floor(freq_hz * 2^25 /
\* 32_000_000) reduced modulo 2^32: the whole quotient for
\* freq_hz <= 4_095_999_999, and the quotient less its bit 32 (which the
\* cast to u32 drops) for every larger freq_hz.
C1_FromFrequencyModulo ==
    rf_how = "from_frequency" =>
        /\ Len(RfFreq_as_slice(rf_r)) = 5
        /\ IF NatLeq(rf_arg, Hz4095999999)
           THEN IsFloorOf(BufBits(rf_r), rf_arg, Pow2(25), 32000000)
           ELSE IsFloorOf(<<1>> \o BufBits(rf_r), rf_arg, Pow2(25), 32000000)

\* from_frequency(4_095_999_999) holds 0xFFFFFFFE, the largest encoding.
C1_Witness ==
    /\ rf_how = "from_frequency"
    /\ rf_arg = Hz4095999999
    /\ BufBits(rf_r) = <<15, 15, 15, 15, 15, 15, 15, 14>>

\* C2: for every bits of the u32 range, from_bits(bits).freq() is
\* floor(32_000_000 * bits / 2^25), a value of 32 bits; it is 0 at bits = 0
\* and 4_095_999_999 at bits = u32::MAX.
C2_FreqIsFloor ==
    (rf_how = "from_bits" /\ rf_hz # <<>>) =>
        /\ Len(rf_hz) = 8
        /\ IsFloorOf(rf_hz, rf_arg, 32000000, Pow2(25))
        /\ rf_arg = U32Zero => rf_hz = U32Zero
        /\ rf_arg = U32Max => rf_hz = Hz4095999999

\* from_bits(u32::MAX).freq() was computed and is 4_095_999_999.
C2_Witness ==
    /\ rf_how = "from_bits"
    /\ rf_arg = U32Max
    /\ rf_hz = Hz4095999999

\* C3 as stated: for every freq_hz, with r = from_frequency(freq_hz),
\* from_frequency(r.freq()) = r.
C3_AsStated ==
    (rf_how = "from_frequency" /\ rf_r2 # <<>>) => rf_r2 = rf_r

\* C3 amended: with r = from_frequency(freq_hz), from_frequency(r.freq())
\* equals r exactly when freq_hz is a multiple of 15_625 Hz (the
\* frequencies whose encoding is exact, the presets among them); for every
\* other freq_hz it holds a register value 1 or 2 below that of r.
C3_ReencodeExactOnly ==
    (rf_how = "from_frequency" /\ rf_r2 # <<>>) =>
        /\ (rf_r2 = rf_r) <=> (NatMod(rf_arg, 15625, 0) = 0)
        /\ \E d \in 0..2 : NatEq(NatAdd(BufBits(rf_r2), d), BufBits(rf_r))

\* 915 MHz was encoded, decoded and re-encoded to the same F915.
C3_Witness ==
    /\ rf_how = "from_frequency"
    /\ rf_arg = Hz915M
    /\ rf_r2 = rf_r
    /\ rf_r2 = RfFreq_F915

\* C8: for every bits of the u32 range, from_bits(bits).as_slice() is 5
\* bytes, 0x86 then bits big-endian, and as_bits() gives bits back.
C8_FromBitsBigEndian ==
    rf_how = "from_bits" =>
        /\ Len(RfFreq_as_slice(rf_r)) = 5
        /\ RfFreq_as_slice(rf_r) =
              <<134, ByteAt(rf_arg, 1), ByteAt(rf_arg, 3),
                ByteAt(rf_arg, 5), ByteAt(rf_arg, 7)>>
        /\ RfFreq_as_bits(rf_r) = rf_arg

\* from_bits(0x12345678) is [0x86, 0x12, 0x34, 0x56, 0x78].
C8_Witness ==
    /\ rf_how = "from_bits"
    /\ rf_arg = <<1, 2, 3, 4, 5, 6, 7, 8>>
    /\ RfFreq_as_slice(rf_r) = <<134, 18, 52, 86, 120>>

\* C9: for every freq_hz <= 4_095_999_999, from_frequency(freq_hz).freq()
\* is freq_hz or freq_hz - 1; for 915, 868 and 433 MHz it is freq_hz and
\* the RfFreq is F915 (0x39300000), F868 (0x36400000), F433 (0x1B100000).
C9_DecodeWithinOneHz ==
    (rf_how = "from_frequency" /\ NatLeq(rf_arg, Hz4095999999)) =>
        /\ rf_hz # <<>> => (rf_hz = rf_arg \/ NatEq(NatAdd(rf_hz, 1), rf_arg))
        /\ rf_arg = Hz915M =>
              /\ rf_r = RfFreq_F915
              /\ BufBits(rf_r) = <<3, 9, 3, 0, 0, 0, 0, 0>>
              /\ rf_hz # <<>> => rf_hz = rf_arg
        /\ rf_arg = Hz868M =>
              /\ rf_r = RfFreq_F868
              /\ BufBits(rf_r) = <<3, 6, 4, 0, 0, 0, 0, 0>>
              /\ rf_hz # <<>> => rf_hz = rf_arg
        /\ rf_arg = Hz433M =>
              /\ rf_r = RfFreq_F433
              /\ BufBits(rf_r) = <<1, 11, 1, 0, 0, 0, 0, 0>>
              /\ rf_hz # <<>> => rf_hz = rf_arg

\* 433_000_001 Hz was encoded and decoded to 433_000_000 Hz: 1 Hz lost.
C9_Witness ==
    /\ rf_how = "from_frequency"
    /\ rf_arg = <<1, 9, 12, 15, 0, 14, 4, 1>>
    /\ rf_hz = Hz433M


---------------------------------------------------------------------------
(* Claims about PaConfig, under Spec (setter sequences) and SpecPaCall     *)
(* (one setter call, any u8 argument).                                     *)

\* C4 as stated: PaConfig::new() is [0x95, duty-cycle 1, hp-max 0,
\* PA selection HP (0), reserved 1].
C4_AsStated ==
    PaFresh => PaConfig_as_slice(pa) = <<149, 1, 0, PaSel_as_u8("Hp"), 1>>

\* C4 amended: PaConfig::new() is [0x95, duty-cycle 1, hp-max 0,
\* PA selection LP (1), reserved 1].
C4_NewSelectsLp ==
    PaFresh => PaConfig_as_slice(pa) = <<149, 1, 0, PaSel_as_u8("Lp"), 1>>

\* The builder is PaConfig::new(), no setter applied, PA selection byte 1.
C4_Witness ==
    /\ PaFresh
    /\ Len(PaConfig_as_slice(pa)) = 5
    /\ PaConfig_as_slice(pa)[4] = 1

\* C5: for every v of the u8 range, set_pa_duty_cycle(v) stores v & 0b111
\* (v mod 8) in byte 1 and set_hp_max(v) stores v & 0b111 in byte 2; bytes
\* 1 and 2 are always in 0..7.
C5_SettersMaskToThreeBits ==
    /\ pa_duty # <<>> => PaConfig_as_slice(pa)[2] = pa_duty[1] % 8
    /\ pa_hp # <<>> => PaConfig_as_slice(pa)[3] = pa_hp[1] % 8
    /\ PaConfig_as_slice(pa)[2] \in 0..7
    /\ PaConfig_as_slice(pa)[3] \in 0..7

\* set_hp_max(0xFD) was called and stored 5.
C5_Witness ==
    /\ pa_hp = <<253>>
    /\ PaConfig_as_slice(pa)[3] = 5

\* C10: after any sequence of setter calls on PaConfig::new(), byte 0 is
\* 0x95, byte 4 is 0x01, and each of bytes 1, 2, 3 holds what the latest
\* call of its own setter wrote, or new()'s value if there was none; calls
\* of different setters commute and a later call of a setter overwrites an
\* earlier one.
C10_SettersOwnTheirByte ==
    /\ pa[1] = 149
    /\ pa[5] = 1
    /\ pa[2] = (IF pa_duty = <<>> THEN PaConfig_new[2] ELSE pa_duty[1] % 8)
    /\ pa[3] = (IF pa_hp = <<>> THEN PaConfig_new[3] ELSE pa_hp[1] % 8)
    /\ pa[4] = (IF pa_sel = <<>> THEN PaConfig_new[4]
                ELSE IF pa_sel[1] = "Hp" THEN 0 ELSE 1)
    /\ \A v, w \in 0..MaxArg :
          /\ PaConfig_set_hp_max(PaConfig_set_pa_duty_cycle(pa, v), w)
                = PaConfig_set_pa_duty_cycle(PaConfig_set_hp_max(pa, w), v)
          /\ PaConfig_set_pa_duty_cycle(PaConfig_set_pa_duty_cycle(pa, v), w)
                = PaConfig_set_pa_duty_cycle(pa, w)
          /\ PaConfig_set_hp_max(PaConfig_set_hp_max(pa, v), w)
                = PaConfig_set_hp_max(pa, w)
    /\ \A v \in 0..MaxArg : \A p, q \in PaSel :
          /\ PaConfig_set_pa(PaConfig_set_pa_duty_cycle(pa, v), p)
                = PaConfig_set_pa_duty_cycle(PaConfig_set_pa(pa, p), v)
          /\ PaConfig_set_pa(PaConfig_set_hp_max(pa, v), p)
                = PaConfig_set_hp_max(PaConfig_set_pa(pa, p), v)
          /\ PaConfig_set_pa(PaConfig_set_pa(pa, p), q) = PaConfig_set_pa(pa, q)

\* The doc test of as_slice: set_pa(Hp), set_pa_duty_cycle(2) and
\* set_hp_max(3) were the latest calls and the buffer is
\* [0x95, 0x2, 0x3, 0x0, 0x1].
C10_Witness ==
    /\ pa_sel = <<"Hp">>
    /\ pa_duty = <<2>>
    /\ pa_hp = <<3>>
    /\ PaConfig_as_slice(pa) = <<149, 2, 3, 0, 1>>

---------------------------------------------------------------------------
(* Claims about TcxoMode, under SpecTcxoMode.                              *)

\* C6: after any sequence of set_txco_trim and set_timeout calls on
\* TcxoMode::new(), byte 0 is 0x97, byte 1 is the code 0..7 of the latest
\* trim (0 if none) and bytes 2..4 are bits 23..16, 15..8 and 7..0 of the
\* latest timeout bit value (0 if none), bits above 23 discarded: each
\* setter leaves the other's bytes alone, in either call order.
C6_TcxoLayout ==
    /\ Len(TcxoMode_as_slice(tcxo)) = 5
    /\ tcxo[1] = 151
    /\ tcxo[2] \in 0..7
    /\ tcxo[2] = (IF tcxo_trim = <<>> THEN 0 ELSE TcxoTrim_as_u8(tcxo_trim[1]))
    /\ tcxo[3] = (IF tcxo_bits = <<>> THEN 0 ELSE ByteAt(tcxo_bits[1], 3))
    /\ tcxo[4] = (IF tcxo_bits = <<>> THEN 0 ELSE ByteAt(tcxo_bits[1], 5))
    /\ tcxo[5] = (IF tcxo_bits = <<>> THEN 0 ELSE ByteAt(tcxo_bits[1], 7))
    /\ (tcxo_trim = <<"Volts1pt7">> /\ tcxo_bits = << <<0, 0, 1, 2, 3, 4, 5, 6>> >>)
          => TcxoMode_as_slice(tcxo) = <<151, 1, 18, 52, 86>>

\* set_txco_trim(Volts3pt3) and set_timeout of 0xFFFFFFE9 were the latest
\* calls: the buffer is [0x97, 7, 0xFF, 0xFF, 0xE9], bits 31..24 gone.
C6_Witness ==
    /\ tcxo_trim = <<"Volts3pt3">>
    /\ tcxo_bits = << <<15, 15, 15, 15, 15, 15, 14, 9>> >>
    /\ TcxoMode_as_slice(tcxo) = <<151, 7, 255, 255, 233>>

---------------------------------------------------------------------------
(* Claims about PacketType, under SpecPacketType.                          *)

\* C7: from_bits(b) is Ok of the variant whose code is b for b in 0..3
\* (Fsk, LoRa, Bpsk, Msk) and Err(b) for every b in 4..255; so
\* from_bits(v as u8) is Ok(v) for every variant v.
C7_FromBitsDecodesOrRejects ==
    pt_res # NoResult =>
        /\ pt_bits = 0 => pt_res = Ok("Fsk")
        /\ pt_bits = 1 => pt_res = Ok("LoRa")
        /\ pt_bits = 2 => pt_res = Ok("Bpsk")
        /\ pt_bits = 3 => pt_res = Ok("Msk")
        /\ pt_bits \in 0..3 =>
              /\ pt_res.err = <<>>
              /\ Len(pt_res.ok) = 1
              /\ PacketType_as_u8(pt_res.ok[1]) = pt_bits
        /\ pt_bits \in 4..255 => pt_res = Err(pt_bits)
        /\ pt_from # <<>> => pt_res = Ok(pt_from[1])

\* from_bits(255) was called and returned Err(255).
C7_Witness ==
    /\ pt_bits = 255
    /\ pt_res = Err(255)


====
